---- MODULE Spec2Model ----
(***************************************************************************)
(* A model of the write-behind persistence pipeline of Miscraft:           *)
(*   src/src/ring.h  the growable ring of tagged commands (declarations;   *)
(*                   the bodies of the ring functions are not part of the  *)
(*                   sources at hand and are modelled from spec.md 3/4.1)  *)
(*   src/src/db.c    the producer entry points, the worker thread and the  *)
(*                   start/stop lifecycle.                                 *)
(***************************************************************************)
EXTENDS Integers, Sequences, FiniteSets, TLC

----------------------------------------------------------------------------
(* Bounds of the model.                                                     *)

\* capacity handed to ring_alloc by db_worker_start; db.c:718 passes 1024,
\* the model scales the allocation down so that growth happens within reach
InitialCapacity == 2
\* number of enqueue calls of the producer threads that reach the ring in a run
MaxPush == 2
\* number of commands the worker is handed in a run of SpecStore
MaxApply == 3

\* number of ring operations in a run of SpecRing
MaxRingOps == 6
\* ring_grow is not called directly on rings larger than this (SpecRing)
MaxGrowCapacity == 4

----------------------------------------------------------------------------
(* RingEntry, ring.h:5-25.                                                  *)

RingEntryType == {"BLOCK", "LIGHT", "KEY", "COMMIT", "EXIT", "BLOCK_DAMAGE", "BLOCK_DAMAGE_TRIM"}

\* a RingEntry; fields a command kind does not use are held at 0
Entry(t, p, q, x, y, z, w, key) ==
    [type |-> t, p |-> p, q |-> q, x |-> x, y |-> y, z |-> z, w |-> w, key |-> key]

\* content of a storage slot nothing was put into yet
NoEntry == [type |-> "NONE", p |-> 0, q |-> 0, x |-> 0, y |-> 0, z |-> 0, w |-> 0, key |-> 0]

\* the entries the ring_put_* helpers build (ring.h:60-102)
ring_entry_block(p, q, x, y, z, w) == Entry("BLOCK", p, q, x, y, z, w, 0)
ring_entry_light(p, q, x, y, z, w) == Entry("LIGHT", p, q, x, y, z, w, 0)
ring_entry_block_damage(p, q, x, y, z, damage) == Entry("BLOCK_DAMAGE", p, q, x, y, z, damage, 0)
ring_entry_block_damage_trim(p, q) == Entry("BLOCK_DAMAGE_TRIM", p, q, 0, 0, 0, 0, 0)
ring_entry_key(p, q, key) == Entry("KEY", p, q, 0, 0, 0, 0, key)
ring_entry_commit == Entry("COMMIT", 0, 0, 0, 0, 0, 0, 0)
ring_entry_exit == Entry("EXIT", 0, 0, 0, 0, 0, 0, 0)

----------------------------------------------------------------------------
(* Ring, ring.h:28-33: capacity, start, end and the storage.  Slot i of the *)
(* storage (0-based in C) is data[i + 1].                                   *)

\* ring_alloc: a ring of the given capacity with start = end = 0
ring_alloc(capacity) ==
    [capacity |-> capacity, start |-> 0, end |-> 0,
     data |-> [i \in 1..capacity |-> NoEntry]]

\* ring_empty: no entry is pending
ring_empty(r) == r.start = r.end

\* ring_full: one slot is kept free, so that full and empty differ
ring_full(r) == r.start = (r.end + 1) % r.capacity

\* ring_size: size = (end - start) mod capacity
ring_size(r) == (r.end - r.start) % r.capacity

\* the pending entries, oldest first, read from slot `start` with wrap-around
Pending(r) ==
    [i \in 1..ring_size(r) |-> r.data[((r.start + i - 1) % r.capacity) + 1]]

\* a growth that copies slots 0..size-1 instead of the pending entries
ring_grow_nowrap(r) ==
    [capacity |-> 2 * r.capacity, start |-> 0, end |-> ring_size(r),
     data |-> [i \in 1..(2 * r.capacity) |->
                 IF i <= ring_size(r) THEN r.data[i] ELSE NoEntry]]

\* a growth that doubles the storage and leaves start and end where they were
ring_grow_inplace(r) ==
    [capacity |-> 2 * r.capacity, start |-> r.start, end |-> r.end,
     data |-> [i \in 1..(2 * r.capacity) |->
                 IF i <= r.capacity THEN r.data[i] ELSE NoEntry]]

\* ring_grow: double the capacity, copy the pending entries to slot 0 onward,
\* start = 0, end = size
ring_grow(r) ==
    [capacity |-> 2 * r.capacity, start |-> 0, end |-> ring_size(r),
     data |-> [i \in 1..(2 * r.capacity) |->
                 IF i <= ring_size(r) THEN Pending(r)[i] ELSE NoEntry]]

\* a put that overwrites instead of growing when the ring is full
ring_put_nogrow(r, e) ==
    [r EXCEPT !.data[r.end + 1] = e, !.end = (r.end + 1) % r.capacity]

\* ring_put: grow when full, then store at `end` and advance `end`
ring_put(r, e) ==
    LET g == IF ring_full(r) THEN ring_grow(r) ELSE r
    IN  [g EXCEPT !.data[g.end + 1] = e, !.end = (g.end + 1) % g.capacity]

\* a get that returns the newest pending entry
ring_get_newest(r) ==
    IF ring_empty(r)
    THEN [ok |-> FALSE, entry |-> NoEntry, ring |-> r]
    ELSE [ok |-> TRUE,
          entry |-> r.data[((r.end + r.capacity - 1) % r.capacity) + 1],
          ring |-> [r EXCEPT !.end = (r.end + r.capacity - 1) % r.capacity]]

\* ring_get: 0 and the ring untouched when empty; else the entry at `start`,
\* and `start` advanced
ring_get(r) ==
    IF ring_empty(r)
    THEN [ok |-> FALSE, entry |-> NoEntry, ring |-> r]
    ELSE [ok |-> TRUE, entry |-> r.data[r.start + 1],
          ring |-> [r EXCEPT !.start = (r.start + 1) % r.capacity]]

\* the entries a full drain (ring_get until it returns 0) yields, in order
RECURSIVE Drain(_)
Drain(r) ==
    LET g == ring_get(r)
    IN  IF g.ok THEN <<g.entry>> \o Drain(g.ring) ELSE <<>>

----------------------------------------------------------------------------
(* State.                                                                   *)

VARIABLES
    db_enabled, \* static int db_enabled (db.c:11)
    ring,       \* static Ring ring (db.c:28)
    ringLive,   \* storage of the ring: "none", "live" (allocated) or "freed"
    mtx,        \* static mtx_t mtx (db.c:30): its state and the thread holding it
    cnd,        \* static cnd_t cnd (db.c:31): "uninit", "init" or "destroyed"
    load_mtx,   \* static mtx_t load_mtx (db.c:32)
    thrd,       \* static thrd_t thrd (db.c:29): "none", "running", "exited", "joined"
    pc,         \* where each thread stands in the function it executes
    cmd,        \* the RingEntry an enqueue call is about to put
    e,          \* RingEntry e of db_worker_run (db.c:751)
    db,         \* rows seen through the sqlite handle (db.c:13), open transaction included
    disk,       \* rows of the committed transactions
    txn,        \* "open" while a transaction is open on the handle, else "none"
    dbOpen,     \* whether the sqlite handle and its statements are open
    pushed,     \* history: the entries put onto the ring, in put order
    popped,     \* history: the entries successful ring_get calls returned
    applied,    \* history: the entries db_worker_run dispatched, in order
    ub,         \* history: uses of a primitive or of the ring outside its lifetime
    crashed,    \* the process was aborted by such a use
    ret,        \* history: the kind of call that last returned at its db_enabled guard
    rop,        \* history: the last ring operation and what it met
    nops,       \* number of ring operations made so far (SpecRing)
    failed,     \* history: the places in `applied` of the commands a store write of which failed
    load_owner, \* the thread that holds load_mtx, "none" when it is free
    rd,         \* the direct read each thread is in, "none" outside one
    loaded      \* the chunk and the result of the last db_load_damage (SpecTrim)

\* what the pipeline leaves alone: the store failures and the direct reads
sideVars == <<failed, load_owner, rd, loaded>>

ringVars == <<ring, pushed, popped, rop, nops>>

progVars ==
    <<db_enabled, ringLive, mtx, cnd, load_mtx, thrd, pc, cmd, e, db, disk, txn,
      dbOpen, applied, ub, crashed, ret, sideVars>>

vars ==
    <<db_enabled, ring, ringLive, mtx, cnd, load_mtx, thrd, pc, cmd, e, db, disk,
      txn, dbOpen, pushed, popped, applied, ub, crashed, ret, rop, nops, sideVars>>

----------------------------------------------------------------------------
(* Threads.                                                                 *)

Producers == {"p1", "p2"}

Threads == Producers \cup {"main", "worker"}

----------------------------------------------------------------------------
(* The store: the tables of db.c:89-132 as sets of rows.  A block, light or *)
(* damage row is <<p, q, x, y, z, w>>, a key row <<p, q, key>>, a sign row  *)
(* <<p, q, x, y, z, face>>.                                                 *)

EmptyStore == [block |-> {}, light |-> {}, key |-> {}, damage |-> {}, sign |-> {}]

\* "insert or replace" under the unique index on (p, q, x, y, z)
InsertOrReplace5(rows, p, q, x, y, z, w) ==
    {r \in rows : <<r[1], r[2], r[3], r[4], r[5]>> # <<p, q, x, y, z>>}
        \cup {<<p, q, x, y, z, w>>}

\* "insert or replace" under the unique index on (p, q)
InsertOrReplace2(rows, p, q, key) ==
    {r \in rows : <<r[1], r[2]>> # <<p, q>>} \cup {<<p, q, key>>}

\* _db_insert_block: insert or replace into block
_db_insert_block(s, p, q, x, y, z, w) ==
    [s EXCEPT !.block = InsertOrReplace5(s.block, p, q, x, y, z, w)]

\* _db_insert_block_damage: insert or replace into block_damage
_db_insert_block_damage(s, p, q, x, y, z, w) ==
    [s EXCEPT !.damage = InsertOrReplace5(s.damage, p, q, x, y, z, w)]

\* a trim without "w=0": delete from block_damage where p=? and q=?
_db_block_damage_trim_chunk(s, p, q) ==
    [s EXCEPT !.damage = {r \in s.damage : ~(r[1] = p /\ r[2] = q)}]

\* _db_block_damage_trim: delete from block_damage where w=0 and p=? and q=?
_db_block_damage_trim(s, p, q) ==
    [s EXCEPT !.damage = {r \in s.damage : ~(r[6] = 0 /\ r[1] = p /\ r[2] = q)}]

\* _db_insert_light: insert or replace into light
_db_insert_light(s, p, q, x, y, z, w) ==
    [s EXCEPT !.light = InsertOrReplace5(s.light, p, q, x, y, z, w)]

\* _db_set_key: insert or replace into key
_db_set_key(s, p, q, key) ==
    [s EXCEPT !.key = InsertOrReplace2(s.key, p, q, key)]

\* a load that hands every row to map_set, also the rows with damage 0
load_block_damage_all(s, p, q) ==
    { <<r[3], r[4], r[5], r[6]>> : r \in {d \in s.damage : d[1] = p /\ d[2] = q} }

\* db_load_damage past its guard (db.c:601-613): the map_set(map, x, y, z, d)
\* calls made for the rows of "select x, y, z, w from block_damage where
\* p = ? and q = ?", a row with d = 0 being skipped
load_block_damage(s, p, q) ==
    { <<r[3], r[4], r[5], r[6]>> :
        r \in {d \in s.damage : d[1] = p /\ d[2] = q /\ d[6] # 0} }

\* no db_load_damage has returned yet
NotLoaded == [done |-> FALSE, p |-> 0, q |-> 0, at |-> 0, map |-> {}]

\* db_insert_sign past its guard: insert or replace into sign, unique on
\* (x, y, z, face)
insert_sign(s, p, q, x, y, z, face) ==
    [s EXCEPT !.sign = {r \in s.sign : <<r[3], r[4], r[5], r[6]>> # <<x, y, z, face>>}
                          \cup {<<p, q, x, y, z, face>>}]

----------------------------------------------------------------------------
(* SpecRing: one ring driven by an arbitrary sequence of ring_alloc,        *)
(* ring_put, ring_get and ring_grow calls (single caller, no locking).      *)

\* entries put in SpecRing
RingVals ==
    { ring_entry_block(0, 0, 1, 2, 3, 5), ring_entry_key(1, 0, 7), ring_entry_commit }

\* capacities ring_alloc is called with in SpecRing
RingCaps == 1..(InitialCapacity + 1)

RingInit ==
    /\ \E c \in RingCaps : ring = ring_alloc(c)
    /\ pushed = <<>>
    /\ popped = <<>>
    /\ rop = [op |-> "alloc", wrapped |-> FALSE, full |-> FALSE]
    /\ nops = 0
    /\ failed = {}
    /\ load_owner = "none"
    /\ rd = [t \in Producers |-> "none"]
    /\ loaded = NotLoaded
    /\ db_enabled = FALSE
    /\ ringLive = "live"
    /\ mtx = [state |-> "uninit", owner |-> "none"]
    /\ cnd = "uninit"
    /\ load_mtx = "uninit"
    /\ thrd = "none"
    /\ pc = [t \in Threads |-> "idle"]
    /\ cmd = [t \in Producers |-> NoEntry]
    /\ e = NoEntry
    /\ db = EmptyStore
    /\ disk = EmptyStore
    /\ txn = "none"
    /\ dbOpen = FALSE
    /\ applied = <<>>
    /\ ub = {}
    /\ crashed = FALSE
    /\ ret = "none"

\* whether the pending entries wrap around the end of the storage
Wrapped(r) == r.end < r.start

\* ring_alloc on the ring again: a fresh, empty ring
RingAlloc ==
    /\ nops < MaxRingOps
    /\ \E c \in RingCaps : ring' = ring_alloc(c)
    /\ pushed' = <<>>
    /\ popped' = <<>>
    /\ rop' = [op |-> "alloc", wrapped |-> FALSE, full |-> FALSE]
    /\ nops' = nops + 1
    /\ UNCHANGED progVars

\* ring_put(&ring, &entry)
RingPut ==
    /\ nops < MaxRingOps
    /\ \E v \in RingVals :
         /\ ring' = ring_put(ring, v)
         /\ pushed' = Append(pushed, v)
    /\ rop' = [op |-> "put", wrapped |-> Wrapped(ring), full |-> ring_full(ring)]
    /\ nops' = nops + 1
    /\ UNCHANGED <<popped, progVars>>

\* ring_get(&ring, &entry)
RingGet ==
    /\ nops < MaxRingOps
    /\ LET g == ring_get(ring)
       IN  /\ ring' = g.ring
           /\ popped' = IF g.ok THEN Append(popped, g.entry) ELSE popped
           /\ rop' = [op |-> IF g.ok THEN "get" ELSE "get_empty",
                      wrapped |-> Wrapped(ring), full |-> ring_full(ring)]
    /\ nops' = nops + 1
    /\ UNCHANGED <<pushed, progVars>>

\* ring_grow(&ring), called directly
RingGrow ==
    /\ nops < MaxRingOps
    /\ ring.capacity <= MaxGrowCapacity
    /\ ring' = ring_grow(ring)
    /\ rop' = [op |-> "grow", wrapped |-> Wrapped(ring), full |-> ring_full(ring)]
    /\ nops' = nops + 1
    /\ UNCHANGED <<pushed, popped, progVars>>

RingNext == RingAlloc \/ RingPut \/ RingGet \/ RingGrow

SpecRing == RingInit /\ [][RingNext]_vars

----------------------------------------------------------------------------
(* SpecGrow: the ring of the worker at the size db_worker_start gives it.    *)
(* The ring is a zeroed static (db.c:28) until db_worker_start allocates it; *)
(* then entries are put at the back and taken at the front.  A run starts   *)
(* before db_worker_start, or with the ring as db_worker_start and a number *)
(* of puts and gets have left it, so that a few more calls meet a full ring. *)

\* the capacity db_worker_start allocates: ring_alloc(&ring, 1024) (db.c:718)
WorkerRingCapacity == 1024

\* calls made in a run of SpecGrow, and gets made before it
MaxGrowOps == 6
MaxGrowGets == 2

\* static Ring ring: all fields zero, no storage
StaticRing == [capacity |-> 0, start |-> 0, end |-> 0, data |-> <<>>]

\* the n-th entry put in SpecGrow, told apart from the others by its key
GrowVal(n) == ring_entry_key(0, 0, n)

\* the ring r after ring_put of the entries number a .. b, one after the other
\* (the calls are split in halves and the first half is computed before the
\* second to keep the evaluation shallow; a put never shrinks a ring)
RECURSIVE RingAfterPuts(_, _, _)
RingAfterPuts(r, a, b) ==
    IF a > b THEN r
    ELSE IF a = b THEN ring_put(r, GrowVal(a))
    ELSE LET half == RingAfterPuts(r, a, (a + b) \div 2)
         IN  IF half.capacity >= r.capacity
             THEN RingAfterPuts(half, ((a + b) \div 2) + 1, b)
             ELSE half

\* the ring r after k calls of ring_get
RECURSIVE RingAfterGets(_, _)
RingAfterGets(r, k) ==
    IF k = 0 THEN r ELSE RingAfterGets(ring_get(r).ring, k - 1)

\* the numbers of puts a run of SpecGrow starts behind
GrowPuts == {1, WorkerRingCapacity - 2, WorkerRingCapacity - 1}

GrowInit ==
    /\ \/ /\ ring = StaticRing
          /\ ringLive = "none"
          /\ pushed = <<>>
          /\ popped = <<>>
          /\ rop = [op |-> "none", wrapped |-> FALSE, full |-> FALSE]
          /\ mtx = [state |-> "uninit", owner |-> "none"]
          /\ cnd = "uninit"
          /\ load_mtx = "uninit"
          /\ thrd = "none"
          /\ pc = [t \in Threads |-> "idle"]
       \/ /\ \E n \in GrowPuts : \E k \in 0..MaxGrowGets :
               /\ k <= n
               /\ ring = RingAfterGets(RingAfterPuts(ring_alloc(WorkerRingCapacity), 1, n), k)
               /\ pushed = [i \in 1..n |-> GrowVal(i)]
               /\ popped = [i \in 1..k |-> GrowVal(i)]
          /\ ringLive = "live"
          /\ rop = [op |-> "alloc", wrapped |-> FALSE, full |-> FALSE]
          /\ mtx = [state |-> "init", owner |-> "none"]
          /\ cnd = "init"
          /\ load_mtx = "init"
          /\ thrd = "running"
          /\ pc = [t \in Threads |-> IF t = "worker" THEN "lock" ELSE "idle"]
    /\ nops = 0
    /\ failed = {}
    /\ load_owner = "none"
    /\ rd = [t \in Producers |-> "none"]
    /\ loaded = NotLoaded
    /\ db_enabled = TRUE
    /\ cmd = [t \in Producers |-> NoEntry]
    /\ e = NoEntry
    /\ db = EmptyStore
    /\ disk = EmptyStore
    /\ txn = "open"
    /\ dbOpen = TRUE
    /\ applied = <<>>
    /\ ub = {}
    /\ crashed = FALSE
    /\ ret = "none"

\* an allocation of half the size
db_worker_start_half ==
    /\ ringLive = "none"
    /\ db_enabled
    /\ ring' = ring_alloc(WorkerRingCapacity \div 2)
    /\ ringLive' = "live"
    /\ mtx' = [state |-> "init", owner |-> "none"]
    /\ load_mtx' = "init"
    /\ cnd' = "init"
    /\ thrd' = "running"
    /\ pc' = [pc EXCEPT !["worker"] = "lock"]
    /\ rop' = [op |-> "alloc", wrapped |-> FALSE, full |-> FALSE]
    /\ UNCHANGED <<db_enabled, cmd, e, db, disk, txn, dbOpen, pushed, popped, applied,
                   ub, crashed, ret, nops, sideVars>>

\* db_worker_start, db.c:716-723
db_worker_start ==
    /\ ringLive = "none"
    /\ db_enabled
    /\ ring' = ring_alloc(WorkerRingCapacity)
    /\ ringLive' = "live"
    /\ mtx' = [state |-> "init", owner |-> "none"]
    /\ load_mtx' = "init"
    /\ cnd' = "init"
    /\ thrd' = "running"
    /\ pc' = [pc EXCEPT !["worker"] = "lock"]
    /\ rop' = [op |-> "alloc", wrapped |-> FALSE, full |-> FALSE]
    /\ UNCHANGED <<db_enabled, cmd, e, db, disk, txn, dbOpen, pushed, popped, applied,
                   ub, crashed, ret, nops, sideVars>>

\* ring_put of the next entry, as the enqueue entry points do under the mutex
GrowPut ==
    /\ ringLive = "live"
    /\ nops < MaxGrowOps
    /\ ring' = ring_put(ring, GrowVal(Len(pushed) + 1))
    /\ pushed' = Append(pushed, GrowVal(Len(pushed) + 1))
    /\ rop' = [op |-> "put", wrapped |-> Wrapped(ring), full |-> ring_full(ring)]
    /\ nops' = nops + 1
    /\ UNCHANGED <<popped, progVars>>

\* ring_get, as the worker does under the mutex
GrowGet ==
    /\ ringLive = "live"
    /\ nops < MaxGrowOps
    /\ LET g == ring_get(ring)
       IN  /\ ring' = g.ring
           /\ popped' = IF g.ok THEN Append(popped, g.entry) ELSE popped
           /\ rop' = [op |-> IF g.ok THEN "get" ELSE "get_empty",
                      wrapped |-> Wrapped(ring), full |-> ring_full(ring)]
    /\ nops' = nops + 1
    /\ UNCHANGED <<pushed, progVars>>

GrowNext == db_worker_start \/ GrowPut \/ GrowGet

SpecGrow == GrowInit /\ [][GrowNext]_vars

----------------------------------------------------------------------------
(* Spec: the pipeline after construction.  Init is the state db_enable();   *)
(* db_init(path) leaves behind (db.c:167-214 and db_worker_start,           *)
(* db.c:716-723): the handle open, a transaction begun, the ring allocated, *)
(* the primitives initialised, the worker thread created.  The main thread  *)
(* calls db_close once; the producer threads call the enqueue entry points  *)
(* and db_insert_sign at any time: before, during and after the stop.       *)
(* SpecSwitch: the main thread also calls db_enable, db_disable and db_init *)
(* (with persistence disabled) any number of times.  SpecAgain: it also     *)
(* calls db_close after a db_close has completed.                           *)

\* the frame of the uses of a dead primitive: everything but ub and crashed
restVars ==
    <<db_enabled, ring, ringLive, mtx, cnd, load_mtx, thrd, pc, cmd, e, db, disk,
      txn, dbOpen, pushed, popped, applied, ret, rop, nops, sideVars>>

\* A step that uses a primitive, the ring or the handle outside its lifetime
\* (the labels L, empty for a regular step) is undefined behaviour: the step
\* either goes on as Proceed says or aborts the process.
Outcome(L, Proceed) ==
    /\ ub' = ub \cup L
    /\ \/ /\ crashed' = FALSE
          /\ Proceed
       \/ /\ L # {}
          /\ crashed' = TRUE
          /\ UNCHANGED restVars

\* who makes a call: the stop path of the main thread, or a producer
Who(t) == IF t = "main" THEN "stop" ELSE "producer"

\* the label of a use, by thread t, of something that is dead when `dead` holds
Dead(dead, t, what) == IF dead THEN {<<Who(t), what>>} ELSE {}

\* a put that is not followed by cnd_signal(&cnd): nobody is woken
cnd_signal_missing(f) == f

\* cnd_signal(&cnd): the worker, when it sleeps in cnd_wait, is woken
cnd_signal(f) == IF f["worker"] = "wait" THEN [f EXCEPT !["worker"] = "wake"] ELSE f

\* the entries the enqueue entry points are called with
BlockArgs == { ring_entry_block(0, 0, 1, 2, 3, 5) }
LightArgs == { ring_entry_light(0, 0, 1, 2, 3, 9) }
DamageArgs == { ring_entry_block_damage(0, 0, 1, 2, 3, 4) }
TrimArgs == { ring_entry_block_damage_trim(0, 0) }
KeyArgs == { ring_entry_key(1, 0, 7) }

\* the producers make at most MaxPush enqueue calls that reach the ring
InFlight == Cardinality({t \in Producers : pc[t] = "lock"})
MayPush == Len(pushed) + InFlight < MaxPush

Init ==
    /\ db_enabled = TRUE
    /\ ring = ring_alloc(InitialCapacity)
    /\ ringLive = "live"
    /\ mtx = [state |-> "init", owner |-> "none"]
    /\ cnd = "init"
    /\ load_mtx = "init"
    /\ thrd = "running"
    /\ pc = [t \in Threads |-> IF t = "worker" THEN "lock" ELSE "idle"]
    /\ cmd = [t \in Producers |-> NoEntry]
    /\ e = NoEntry
    /\ db = EmptyStore
    /\ disk = EmptyStore
    /\ txn = "open"
    /\ dbOpen = TRUE
    /\ pushed = <<>>
    /\ popped = <<>>
    /\ applied = <<>>
    /\ ub = {}
    /\ crashed = FALSE
    /\ ret = "none"
    /\ rop = [op |-> "alloc", wrapped |-> FALSE, full |-> FALSE]
    /\ nops = 0
    /\ failed = {}
    /\ load_owner = "none"
    /\ rd = [t \in Producers |-> "none"]
    /\ loaded = NotLoaded

(* ---- the enqueue entry points, db.c:245-251, 411-417, 440-446, 462-468,  *)
(*      488-494, 688-694 ---- *)

\* an enqueue entry point without its guard
EnqueueUnguarded(t, c) ==
    /\ ~crashed
    /\ pc[t] = "idle"
    /\ MayPush
    /\ pc' = [pc EXCEPT ![t] = "lock"]
    /\ cmd' = [cmd EXCEPT ![t] = c]
    /\ UNCHANGED <<db_enabled, ring, ringLive, mtx, cnd, load_mtx, thrd, e, db, disk,
                   txn, dbOpen, pushed, popped, applied, ub, crashed, ret, rop, nops, sideVars>>

\* if (!db_enabled) { return; } and then on to mtx_lock with the entry built
Enqueue(t, c) ==
    /\ ~crashed
    /\ pc[t] = "idle"
    /\ IF db_enabled
       THEN /\ MayPush
            /\ pc' = [pc EXCEPT ![t] = "lock"]
            /\ cmd' = [cmd EXCEPT ![t] = c]
            /\ UNCHANGED ret
       ELSE /\ ret' = "enqueue"
            /\ UNCHANGED <<pc, cmd>>
    /\ UNCHANGED <<db_enabled, ring, ringLive, mtx, cnd, load_mtx, thrd, e, db, disk,
                   txn, dbOpen, pushed, popped, applied, ub, crashed, rop, nops, sideVars>>

db_insert_block(t) == \E c \in BlockArgs : Enqueue(t, c)
db_insert_light(t) == \E c \in LightArgs : Enqueue(t, c)
db_insert_block_damage(t) == \E c \in DamageArgs : Enqueue(t, c)
db_trim_block_damage(t) == \E c \in TrimArgs : Enqueue(t, c)
db_set_key(t) == \E c \in KeyArgs : Enqueue(t, c)
db_commit(t) == Enqueue(t, ring_entry_commit)

\* mtx_lock(&mtx); ring_put_*(&ring, ...); cnd_signal(&cnd); by thread t
\* standing at `from`: the lock is taken when the mutex is free and the put
\* and the signal follow under it.  On a destroyed mutex or a freed ring the
\* calls are undefined; when they go on, mtx_lock fails without taking the
\* lock and the put writes to the freed storage, which the model does not track.
LockPutSignal(t, from, to, c) ==
    /\ ~crashed
    /\ pc[t] = from
    /\ mtx.state = "init" => mtx.owner = "none"
    /\ Outcome(Dead(mtx.state # "init", t, "lock_dead_mutex")
                 \cup Dead(ringLive # "live", t, "ring_use_after_free")
                 \cup Dead(cnd # "init", t, "signal_dead_cnd"),
               /\ mtx' = IF mtx.state = "init" THEN [mtx EXCEPT !.owner = t] ELSE mtx
               /\ IF ringLive = "live"
                  THEN /\ ring' = ring_put(ring, c)
                       /\ pushed' = Append(pushed, c)
                  ELSE UNCHANGED <<ring, pushed>>
               /\ pc' = [cnd_signal(pc) EXCEPT ![t] = to])
    /\ UNCHANGED <<db_enabled, ringLive, cnd, load_mtx, thrd, e, db, disk,
                   txn, dbOpen, popped, applied, ret, rop, nops, sideVars>>

\* mtx_unlock(&mtx) of thread t standing at `from`
MtxUnlock(t, from, to) ==
    /\ ~crashed
    /\ pc[t] = from
    /\ Outcome(Dead(mtx.state # "init", t, "unlock_dead_mutex"),
               /\ mtx' = IF mtx.owner = t THEN [mtx EXCEPT !.owner = "none"] ELSE mtx
               /\ pc' = [pc EXCEPT ![t] = to])
    /\ UNCHANGED <<db_enabled, ring, ringLive, cnd, load_mtx, thrd, e, db, disk,
                   txn, dbOpen, pushed, popped, applied, ret, rop, nops, sideVars>>

\* the critical section of an enqueue entry point up to the signal
EnqPut(t) ==
    /\ LockPutSignal(t, "lock", "unlock", cmd[t])
    /\ cmd' = IF crashed' THEN cmd ELSE [cmd EXCEPT ![t] = NoEntry]

\* mtx_unlock(&mtx) and return
EnqUnlock(t) == MtxUnlock(t, "unlock", "idle") /\ UNCHANGED cmd

(* ---- an immediate operation: db_insert_sign, db.c:520-533 ---- *)

\* db_insert_sign without its guard
db_insert_sign_unguarded(t) ==
    /\ ~crashed
    /\ pc[t] = "idle"
    /\ Outcome(Dead(~dbOpen, t, "store_use_after_close"),
               /\ db' = IF dbOpen THEN insert_sign(db, 0, 0, 1, 2, 3, 0) ELSE db
               /\ UNCHANGED ret)
    /\ UNCHANGED <<db_enabled, ring, ringLive, mtx, cnd, load_mtx, thrd, pc, cmd, e, disk,
                   txn, dbOpen, pushed, popped, applied, rop, nops, sideVars>>

\* db_insert_sign: if (!db_enabled) { return; } sqlite3_reset ...
\* sqlite3_step(insert_sign_stmt); no lock is taken
db_insert_sign(t) ==
    /\ ~crashed
    /\ pc[t] = "idle"
    /\ IF db_enabled
       THEN Outcome(Dead(~dbOpen, t, "store_use_after_close"),
                    /\ db' = IF dbOpen THEN insert_sign(db, 0, 0, 1, 2, 3, 0) ELSE db
                    /\ UNCHANGED ret)
       ELSE /\ ret' = "immediate"
            /\ UNCHANGED <<db, ub, crashed>>
    /\ UNCHANGED <<db_enabled, ring, ringLive, mtx, cnd, load_mtx, thrd, pc, cmd, e, disk,
                   txn, dbOpen, pushed, popped, applied, rop, nops, sideVars>>

(* ---- db_worker_run, db.c:748-783 ---- *)

\* a loop head that ignores what ring_get returned and goes on with e as it is
WorkerGetUnchecked ==
    /\ ~crashed
    /\ pc["worker"] = "lock"
    /\ mtx.owner = "none"
    /\ mtx' = [mtx EXCEPT !.owner = "worker"]
    /\ LET g == ring_get(ring)
       IN  /\ ring' = g.ring
           /\ e' = IF g.ok THEN g.entry ELSE e
           /\ popped' = IF g.ok THEN Append(popped, g.entry) ELSE popped
           /\ pc' = [pc EXCEPT !["worker"] = "unlock"]
    /\ UNCHANGED <<db_enabled, ringLive, cnd, load_mtx, thrd, cmd, db, disk, txn, dbOpen,
                   pushed, applied, ub, crashed, ret, rop, nops, sideVars>>

\* `if` in the place of `while`: ring_get is called once at the top of the loop,
\* and a worker that returns from cnd_wait goes on with e as it is
GetOrWaitOnce(from) ==
    /\ ~crashed
    /\ pc["worker"] = from
    /\ mtx.owner = "none"
    /\ LET g == ring_get(ring)
       IN  IF from = "wake" \/ g.ok
           THEN /\ ring' = IF from = "wake" THEN ring ELSE g.ring
                /\ e' = IF from = "wake" THEN e ELSE g.entry
                /\ popped' = IF from = "wake" THEN popped ELSE Append(popped, g.entry)
                /\ mtx' = [mtx EXCEPT !.owner = "worker"]
                /\ pc' = [pc EXCEPT !["worker"] = "unlock"]
           ELSE /\ pc' = [pc EXCEPT !["worker"] = "wait"]
                /\ UNCHANGED <<ring, e, popped, mtx>>
    /\ UNCHANGED <<db_enabled, ringLive, cnd, load_mtx, thrd, cmd, db, disk, txn, dbOpen,
                   pushed, applied, ub, crashed, ret, rop, nops, sideVars>>

\* the loop condition evaluated under the mutex by a worker standing at `from`:
\* ring_get succeeded and the loop is left, or cnd_wait releases the mutex and
\* the worker sleeps
GetOrWait(from) ==
    /\ ~crashed
    /\ pc["worker"] = from
    /\ mtx.owner = "none"
    /\ LET g == ring_get(ring)
       IN  IF g.ok
           THEN /\ ring' = g.ring
                /\ e' = g.entry
                /\ popped' = Append(popped, g.entry)
                /\ mtx' = [mtx EXCEPT !.owner = "worker"]
                /\ pc' = [pc EXCEPT !["worker"] = "unlock"]
           ELSE /\ pc' = [pc EXCEPT !["worker"] = "wait"]
                /\ UNCHANGED <<ring, e, popped, mtx>>
    /\ UNCHANGED <<db_enabled, ringLive, cnd, load_mtx, thrd, cmd, db, disk, txn, dbOpen,
                   pushed, applied, ub, crashed, ret, rop, nops, sideVars>>

\* mtx_lock(&mtx); while (!ring_get(&ring, &e)) { cnd_wait(&cnd, &mtx); }
\* (db.c:752-755), entered from the top of the loop
WorkerGet == GetOrWait("lock")

\* cnd_wait returns without a signal (a spurious wakeup)
SpuriousWakeup ==
    /\ ~crashed
    /\ pc["worker"] = "wait"
    /\ pc' = [pc EXCEPT !["worker"] = "wake"]
    /\ UNCHANGED <<db_enabled, ring, ringLive, mtx, cnd, load_mtx, thrd, cmd, e, db, disk,
                   txn, dbOpen, pushed, popped, applied, ub, crashed, ret, rop, nops, sideVars>>

\* a wakeup after which the worker leaves the loop without calling ring_get again
WorkerWakeNoRecheck ==
    /\ ~crashed
    /\ pc["worker"] = "wake"
    /\ mtx.owner = "none"
    /\ mtx' = [mtx EXCEPT !.owner = "worker"]
    /\ pc' = [pc EXCEPT !["worker"] = "unlock"]
    /\ UNCHANGED <<db_enabled, ring, ringLive, cnd, load_mtx, thrd, cmd, e, db, disk, txn,
                   dbOpen, pushed, popped, applied, ub, crashed, ret, rop, nops, sideVars>>

\* cnd_wait re-acquires the mutex before it returns and the loop condition is
\* evaluated again (db.c:753-755)
WorkerWake == GetOrWait("wake")

\* the worker goes on to the switch with the mutex still held
WorkerUnlockMissing ==
    /\ ~crashed
    /\ pc["worker"] = "unlock"
    /\ pc' = [pc EXCEPT !["worker"] = "dispatch"]
    /\ UNCHANGED <<db_enabled, ring, ringLive, mtx, cnd, load_mtx, thrd, cmd, e, db, disk,
                   txn, dbOpen, pushed, popped, applied, ub, crashed, ret, rop, nops, sideVars>>

\* mtx_unlock(&mtx) (db.c:756)
WorkerUnlock == MtxUnlock("worker", "unlock", "dispatch") /\ UNCHANGED cmd

\* a switch in which case COMMIT lacks its break and falls into case EXIT
running_after_fallthrough(entry) == entry.type \notin {"COMMIT", "EXIT"}

\* a switch whose case EXIT leaves `running` as it is
running_after_exit_ignored(entry) == TRUE

\* a case EXIT that clears `running` only when nothing is pending in the ring
running_after_pending(entry) == entry.type # "EXIT" \/ ~ring_empty(ring)

\* the value of `running` after the switch: only case EXIT clears it
running_after(entry) == entry.type # "EXIT"

\* a commit that does not begin a new transaction: "commit;"
_db_commit_nobegin == disk' = db /\ txn' = "none"

\* _db_commit: "commit; begin;"
_db_commit == disk' = db /\ txn' = "open"

\* switch (e.type), db.c:757-780: the call of the case, or the first call of
\* case BLOCK
WorkerDispatch ==
    /\ ~crashed
    /\ pc["worker"] = "dispatch"
    /\ applied' = Append(applied, e)
    /\ db' = CASE e.type = "BLOCK" -> _db_insert_block(db, e.p, e.q, e.x, e.y, e.z, e.w)
               [] e.type = "LIGHT" -> _db_insert_light(db, e.p, e.q, e.x, e.y, e.z, e.w)
               [] e.type = "KEY" -> _db_set_key(db, e.p, e.q, e.key)
               [] e.type = "BLOCK_DAMAGE" -> _db_insert_block_damage(db, e.p, e.q, e.x, e.y, e.z, e.w)
               [] e.type = "BLOCK_DAMAGE_TRIM" -> _db_block_damage_trim(db, e.p, e.q)
               [] OTHER -> db
    /\ IF e.type = "COMMIT" THEN _db_commit ELSE UNCHANGED <<disk, txn>>
    /\ IF running_after(e)
       THEN /\ pc' = [pc EXCEPT !["worker"] = IF e.type = "BLOCK" THEN "dispatch2" ELSE "lock"]
            /\ UNCHANGED thrd
       ELSE /\ pc' = [pc EXCEPT !["worker"] = "done"]
            /\ thrd' = "exited"
    /\ UNCHANGED <<db_enabled, ring, ringLive, mtx, cnd, load_mtx, cmd, e, dbOpen,
                   pushed, popped, ub, crashed, ret, rop, nops, sideVars>>

\* a case BLOCK without its second call
WorkerDispatch2NoDamage ==
    /\ ~crashed
    /\ pc["worker"] = "dispatch2"
    /\ pc' = [pc EXCEPT !["worker"] = "lock"]
    /\ UNCHANGED <<db_enabled, ring, ringLive, mtx, cnd, load_mtx, thrd, cmd, e, db, disk, txn,
                   dbOpen, pushed, popped, applied, ub, crashed, ret, rop, nops, sideVars>>

(* ---- a store write that fails: sqlite3_step returns an error, which the   *)
(*      callers of db.c:436, 458, 476, 510, 708 do not look at ---- *)

\* the kinds of command whose case writes to the store
WriteKinds == {"BLOCK", "LIGHT", "KEY", "BLOCK_DAMAGE", "BLOCK_DAMAGE_TRIM"}

\* a worker that leaves its loop when a write fails
WorkerDispatchFailFatal ==
    /\ ~crashed
    /\ pc["worker"] = "dispatch"
    /\ e.type \in WriteKinds
    /\ applied' = Append(applied, e)
    /\ failed' = failed \cup {Len(applied) + 1}
    /\ pc' = [pc EXCEPT !["worker"] = "done"]
    /\ thrd' = "exited"
    /\ UNCHANGED <<db_enabled, ring, ringLive, mtx, cnd, load_mtx, cmd, e, db, disk, txn,
                   dbOpen, pushed, popped, ub, crashed, ret, rop, nops, load_owner, rd, loaded>>

\* the write of the case (the first write of case BLOCK) fails: the row is not
\* written, the function returns void and the switch goes on as ever
WorkerDispatchFail ==
    /\ ~crashed
    /\ pc["worker"] = "dispatch"
    /\ e.type \in WriteKinds
    /\ applied' = Append(applied, e)
    /\ failed' = failed \cup {Len(applied) + 1}
    /\ pc' = [pc EXCEPT !["worker"] = IF e.type = "BLOCK" THEN "dispatch2" ELSE "lock"]
    /\ UNCHANGED <<db_enabled, ring, ringLive, mtx, cnd, load_mtx, thrd, cmd, e, db, disk, txn,
                   dbOpen, pushed, popped, ub, crashed, ret, rop, nops, load_owner, rd, loaded>>

\* the second write of case BLOCK fails
WorkerDispatch2Fail ==
    /\ ~crashed
    /\ pc["worker"] = "dispatch2"
    /\ failed' = failed \cup {Len(applied)}
    /\ pc' = [pc EXCEPT !["worker"] = "lock"]
    /\ UNCHANGED <<db_enabled, ring, ringLive, mtx, cnd, load_mtx, thrd, cmd, e, db, disk, txn,
                   dbOpen, pushed, popped, applied, ub, crashed, ret, rop, nops, load_owner, rd, loaded>>

\* the second call of case BLOCK: _db_insert_block_damage(..., 0) (db.c:760)
WorkerDispatch2 ==
    /\ ~crashed
    /\ pc["worker"] = "dispatch2"
    /\ db' = _db_insert_block_damage(db, e.p, e.q, e.x, e.y, e.z, 0)
    /\ pc' = [pc EXCEPT !["worker"] = "lock"]
    /\ UNCHANGED <<db_enabled, ring, ringLive, mtx, cnd, load_mtx, thrd, cmd, e, disk, txn,
                   dbOpen, pushed, popped, applied, ub, crashed, ret, rop, nops, sideVars>>

(* ---- the main thread: db_enable, db_disable, db_init, db_close ---- *)

\* db_enable, db.c:39
db_enable ==
    /\ ~crashed
    /\ pc["main"] = "idle"
    /\ db_enabled' = TRUE
    /\ ret' = "none"
    /\ UNCHANGED <<ring, ringLive, mtx, cnd, load_mtx, thrd, pc, cmd, e, db, disk, txn,
                   dbOpen, pushed, popped, applied, ub, crashed, rop, nops, sideVars>>

\* db_disable, db.c:46
db_disable ==
    /\ ~crashed
    /\ pc["main"] = "idle"
    /\ db_enabled' = FALSE
    /\ UNCHANGED <<ring, ringLive, mtx, cnd, load_mtx, thrd, pc, cmd, e, db, disk, txn,
                   dbOpen, pushed, popped, applied, ub, crashed, ret, rop, nops, sideVars>>

\* db_init called again with persistence disabled: if (!db_enabled) { return 0; }
\* (db.c:71)
db_init_disabled ==
    /\ ~crashed
    /\ pc["main"] = "idle"
    /\ ~db_enabled
    /\ ret' = "db_init"
    /\ UNCHANGED <<db_enabled, ring, ringLive, mtx, cnd, load_mtx, thrd, pc, cmd, e, db, disk,
                   txn, dbOpen, pushed, popped, applied, ub, crashed, rop, nops, sideVars>>

\* db_close without its guard
db_close_unguarded ==
    /\ ~crashed
    /\ pc["main"] = "idle"
    /\ pc' = [pc EXCEPT !["main"] = "stop_lock"]
    /\ UNCHANGED <<db_enabled, ring, ringLive, mtx, cnd, load_mtx, thrd, cmd, e, db, disk,
                   txn, dbOpen, pushed, popped, applied, ub, crashed, ret, rop, nops, sideVars>>

\* db_close: if (!db_enabled) { return; } db_worker_stop(); (db.c:222-223);
\* db_worker_stop: if (!db_enabled) { return; } (db.c:730)
db_close ==
    /\ ~crashed
    /\ pc["main"] = "idle"
    /\ IF db_enabled
       THEN pc' = [pc EXCEPT !["main"] = "stop_lock"] /\ UNCHANGED ret
       ELSE ret' = "db_close" /\ UNCHANGED pc
    /\ UNCHANGED <<db_enabled, ring, ringLive, mtx, cnd, load_mtx, thrd, cmd, e, db, disk,
                   txn, dbOpen, pushed, popped, applied, ub, crashed, rop, nops, sideVars>>

\* db_worker_stop: mtx_lock(&mtx); ring_put_exit(&ring); cnd_signal(&cnd);
\* (db.c:731-733)
StopPut ==
    /\ LockPutSignal("main", "stop_lock", "stop_unlock", ring_entry_exit)
    /\ UNCHANGED cmd

\* db_worker_stop: mtx_unlock(&mtx) (db.c:734)
StopUnlock == MtxUnlock("main", "stop_unlock", "stop_join") /\ UNCHANGED cmd

\* db_worker_stop: thrd_join(thrd, NULL) (db.c:735) returns once the worker
\* has returned from db_worker_run
StopJoin ==
    /\ ~crashed
    /\ pc["main"] = "stop_join"
    /\ thrd # "running"
    /\ Outcome(Dead(thrd # "exited", "main", "join_twice"),
               /\ thrd' = "joined"
               /\ pc' = [pc EXCEPT !["main"] = "stop_destroy"])
    /\ UNCHANGED <<db_enabled, ring, ringLive, mtx, cnd, load_mtx, cmd, e, db, disk, txn,
                   dbOpen, pushed, popped, applied, ret, rop, nops, sideVars>>

\* db_worker_stop: cnd_destroy(&cnd); mtx_destroy(&load_mtx);
\* mtx_destroy(&mtx); ring_free(&ring); (db.c:736-739)
StopDestroy ==
    /\ ~crashed
    /\ pc["main"] = "stop_destroy"
    /\ Outcome(Dead(cnd # "init", "main", "cnd_destroy_twice")
                 \cup Dead(load_mtx # "init", "main", "load_mtx_destroy_twice")
                 \cup Dead(mtx.state # "init", "main", "mtx_destroy_twice")
                 \cup Dead(mtx.state = "init" /\ mtx.owner # "none", "main", "mtx_destroy_locked")
                 \cup Dead(ringLive # "live", "main", "ring_free_twice"),
               /\ cnd' = "destroyed"
               /\ load_mtx' = "destroyed"
               /\ mtx' = [mtx EXCEPT !.state = "destroyed"]
               /\ ringLive' = "freed"
               /\ pc' = [pc EXCEPT !["main"] = "close_commit"])
    /\ UNCHANGED <<db_enabled, ring, thrd, cmd, e, db, disk, txn, dbOpen, pushed, popped,
                   applied, ret, rop, nops, sideVars>>

\* a db_close without the "commit;": the open transaction is rolled back when
\* the handle is closed
CloseFinishNoCommit ==
    /\ ~crashed
    /\ pc["main"] = "close_commit"
    /\ Outcome(Dead(~dbOpen, "main", "store_use_after_close"),
               /\ txn' = "none"
               /\ dbOpen' = FALSE
               /\ pc' = [pc EXCEPT !["main"] = "idle"])
    /\ UNCHANGED <<db_enabled, ring, ringLive, mtx, cnd, load_mtx, thrd, cmd, e, db, disk,
                   pushed, popped, applied, ret, rop, nops, sideVars>>

\* db_close: sqlite3_exec(db, "commit;"), the sqlite3_finalize calls and
\* sqlite3_close(db) (db.c:224-238)
CloseFinish ==
    /\ ~crashed
    /\ pc["main"] = "close_commit"
    /\ Outcome(Dead(~dbOpen, "main", "store_use_after_close"),
               /\ disk' = IF dbOpen /\ txn = "open" THEN db ELSE disk
               /\ txn' = "none"
               /\ dbOpen' = FALSE
               /\ pc' = [pc EXCEPT !["main"] = "idle"])
    /\ UNCHANGED <<db_enabled, ring, ringLive, mtx, cnd, load_mtx, thrd, cmd, e, db,
                   pushed, popped, applied, ret, rop, nops, sideVars>>

Producer(t) ==
    \/ db_insert_block(t)
    \/ db_insert_light(t)
    \/ db_insert_block_damage(t)
    \/ db_trim_block_damage(t)
    \/ db_set_key(t)
    \/ db_commit(t)
    \/ EnqPut(t)
    \/ EnqUnlock(t)
    \/ db_insert_sign(t)

Worker ==
    \/ WorkerGet
    \/ SpuriousWakeup
    \/ WorkerWake
    \/ WorkerUnlock
    \/ WorkerDispatch
    \/ WorkerDispatch2

\* the main thread calls db_close while the handle is open
CloseOnce == dbOpen /\ db_close

\* the main thread calls db_close after a db_close has completed
CloseAgain == ~dbOpen /\ db_close

Main ==
    \/ CloseOnce
    \/ StopPut
    \/ StopUnlock
    \/ StopJoin
    \/ StopDestroy
    \/ CloseFinish

Next == (\E t \in Producers : Producer(t)) \/ Worker \/ Main

Spec == Init /\ [][Next]_vars

\* SpecSwitch: as Spec, and the main thread may turn the persistence switch
\* at any time and call db_init while it is off
Switch ==
    \/ db_enable
    \/ db_disable
    \/ db_init_disabled

NextSwitch == Next \/ Switch

SpecSwitch == Init /\ [][NextSwitch]_vars

\* SpecLive: Spec under fair scheduling.  A thread that can go on does go on:
\* the worker in its loop (a spurious wakeup is never owed), a producer that
\* holds the mutex, and db_worker_stop between its put and its join.  Store
\* calls return.
WorkerRuns ==
    \/ WorkerGet
    \/ WorkerWake
    \/ WorkerUnlock
    \/ WorkerDispatch
    \/ WorkerDispatch2

Fairness ==
    /\ WF_vars(WorkerRuns)
    /\ WF_vars(StopUnlock \/ StopJoin)
    /\ \A t \in Producers : WF_vars(EnqUnlock(t))

SpecLive == Init /\ [][Next]_vars /\ Fairness

\* SpecFail: as Spec, and any store write of the worker may fail
NextFail == Next \/ WorkerDispatchFail \/ WorkerDispatch2Fail

SpecFail == Init /\ [][NextFail]_vars

\* SpecAgain: as SpecSwitch, and the main thread may call db_close again
\* after a db_close has completed
NextAgain == NextSwitch \/ CloseAgain

SpecAgain == Init /\ [][NextAgain]_vars

----------------------------------------------------------------------------
(* SpecLife: the whole life of the pipeline.  The process starts with       *)
(* persistence off (db.c:11) and nothing constructed; the main thread calls *)
(* db_enable, db_disable, db_init and db_close in any order and the         *)
(* producers call db_insert_block at any time.  db_init gets past its guard *)
(* once, when no worker was started before.                                 *)

\* the state of the statics of db.c:11, 14-32 at process start
LifeInit ==
    /\ db_enabled = FALSE
    /\ ring = [capacity |-> 0, start |-> 0, end |-> 0, data |-> <<>>]
    /\ ringLive = "none"
    /\ mtx = [state |-> "uninit", owner |-> "none"]
    /\ cnd = "uninit"
    /\ load_mtx = "uninit"
    /\ thrd = "none"
    /\ pc = [t \in Threads |-> "idle"]
    /\ cmd = [t \in Producers |-> NoEntry]
    /\ e = NoEntry
    /\ db = EmptyStore
    /\ disk = EmptyStore
    /\ txn = "none"
    /\ dbOpen = FALSE
    /\ pushed = <<>>
    /\ popped = <<>>
    /\ applied = <<>>
    /\ ub = {}
    /\ crashed = FALSE
    /\ ret = "none"
    /\ rop = [op |-> "none", wrapped |-> FALSE, full |-> FALSE]
    /\ nops = 0
    /\ failed = {}
    /\ load_owner = "none"
    /\ rd = [t \in Producers |-> "none"]
    /\ loaded = NotLoaded

\* db_init with persistence on (db.c:70-215): the handle is opened on the
\* file, the statements are prepared, "begin;" is executed and db_worker_start
\* (db.c:716-723) allocates the ring, initialises the primitives and creates
\* the worker thread.  The ring has InitialCapacity slots, as in Init.
db_init ==
    /\ ~crashed
    /\ pc["main"] = "idle"
    /\ db_enabled
    /\ thrd = "none"
    /\ dbOpen' = TRUE
    /\ db' = disk
    /\ txn' = "open"
    /\ ring' = ring_alloc(InitialCapacity)
    /\ ringLive' = "live"
    /\ mtx' = [state |-> "init", owner |-> "none"]
    /\ load_mtx' = "init"
    /\ cnd' = "init"
    /\ thrd' = "running"
    /\ pc' = [pc EXCEPT !["worker"] = "lock"]
    /\ rop' = [op |-> "alloc", wrapped |-> FALSE, full |-> FALSE]
    /\ UNCHANGED <<db_enabled, cmd, e, disk, pushed, popped, applied, ub, crashed, ret,
                   nops, sideVars>>

\* the enqueue calls of SpecLife are calls of db_insert_block
LifeProducer(t) ==
    \/ db_insert_block(t)
    \/ EnqPut(t)
    \/ EnqUnlock(t)

NextLife ==
    \/ \E t \in Producers : LifeProducer(t)
    \/ Worker
    \/ Main
    \/ CloseAgain
    \/ Switch
    \/ db_init

SpecLife == LifeInit /\ [][NextLife]_vars

----------------------------------------------------------------------------
(* SpecLoad: the direct reads of db.c:576-679 on the constructed pipeline.  *)
(* Two threads call db_load_blocks, db_load_lights, db_load_damage,         *)
(* db_load_signs and db_get_key at any time.  A read is the sequence        *)
(* sqlite3_reset, sqlite3_bind_int, sqlite3_step ... on a statement of the  *)
(* shared handle; a thread at "rd_step" has reset and bound its statement   *)
(* and has not yet stepped it to the end.                                   *)

\* the reads that take load_mtx: db_load_blocks (db.c:578), db_load_damage
\* (db.c:601), db_load_lights (db.c:626); db_load_signs and db_get_key take
\* no lock
LockedReads == {"blocks", "damage", "lights"}

\* if (!db_enabled) { return; } and on to the first call of the read
Load(t, op) ==
    /\ ~crashed
    /\ pc[t] = "idle"
    /\ IF db_enabled
       THEN /\ rd' = [rd EXCEPT ![t] = op]
            /\ pc' = [pc EXCEPT ![t] = IF op \in LockedReads THEN "rd_lock" ELSE "rd_bind"]
            /\ UNCHANGED ret
       ELSE /\ ret' = "immediate"
            /\ UNCHANGED <<pc, rd>>
    /\ UNCHANGED <<db_enabled, ring, ringLive, mtx, cnd, load_mtx, thrd, cmd, e, db, disk,
                   txn, dbOpen, pushed, popped, applied, ub, crashed, rop, nops,
                   failed, load_owner, loaded>>

db_load_blocks(t) == Load(t, "blocks")
db_load_damage(t) == Load(t, "damage")
db_load_lights(t) == Load(t, "lights")
db_load_signs(t) == Load(t, "signs")
db_get_key(t) == Load(t, "key")

\* mtx_lock(&load_mtx)
ReadLock(t) ==
    /\ ~crashed
    /\ pc[t] = "rd_lock"
    /\ load_mtx = "init" => load_owner = "none"
    /\ Outcome(Dead(load_mtx # "init", t, "lock_dead_load_mtx"),
               /\ load_owner' = IF load_mtx = "init" THEN t ELSE load_owner
               /\ pc' = [pc EXCEPT ![t] = "rd_bind"])
    /\ UNCHANGED <<db_enabled, ring, ringLive, mtx, cnd, load_mtx, thrd, cmd, e, db, disk,
                   txn, dbOpen, pushed, popped, applied, ret, rop, nops, failed, rd, loaded>>

\* sqlite3_reset(stmt); sqlite3_bind_int(stmt, 1, p); sqlite3_bind_int(stmt, 2, q);
ReadBind(t) ==
    /\ ~crashed
    /\ pc[t] = "rd_bind"
    /\ Outcome(Dead(~dbOpen, t, "store_use_after_close"),
               pc' = [pc EXCEPT ![t] = "rd_step"])
    /\ UNCHANGED <<db_enabled, ring, ringLive, mtx, cnd, load_mtx, thrd, cmd, e, db, disk,
                   txn, dbOpen, pushed, popped, applied, ret, rop, nops, sideVars>>

\* the sqlite3_step calls up to the last row; a read without the lock returns
ReadStep(t) ==
    /\ ~crashed
    /\ pc[t] = "rd_step"
    /\ Outcome(Dead(~dbOpen, t, "store_use_after_close"),
               IF rd[t] \in LockedReads
               THEN pc' = [pc EXCEPT ![t] = "rd_unlock"] /\ UNCHANGED rd
               ELSE pc' = [pc EXCEPT ![t] = "idle"] /\ rd' = [rd EXCEPT ![t] = "none"])
    /\ UNCHANGED <<db_enabled, ring, ringLive, mtx, cnd, load_mtx, thrd, cmd, e, db, disk,
                   txn, dbOpen, pushed, popped, applied, ret, rop, nops, failed, load_owner, loaded>>

\* mtx_unlock(&load_mtx) and return
ReadUnlock(t) ==
    /\ ~crashed
    /\ pc[t] = "rd_unlock"
    /\ Outcome(Dead(load_mtx # "init", t, "unlock_dead_load_mtx"),
               /\ load_owner' = IF load_owner = t THEN "none" ELSE load_owner
               /\ pc' = [pc EXCEPT ![t] = "idle"]
               /\ rd' = [rd EXCEPT ![t] = "none"])
    /\ UNCHANGED <<db_enabled, ring, ringLive, mtx, cnd, load_mtx, thrd, cmd, e, db, disk,
                   txn, dbOpen, pushed, popped, applied, ret, rop, nops, failed, loaded>>

Reader(t) ==
    \/ db_load_blocks(t)
    \/ db_load_damage(t)
    \/ db_load_lights(t)
    \/ db_load_signs(t)
    \/ db_get_key(t)
    \/ ReadLock(t)
    \/ ReadBind(t)
    \/ ReadStep(t)
    \/ ReadUnlock(t)

LoadNext == \E t \in Producers : Reader(t)

SpecLoad == Init /\ [][LoadNext]_vars

----------------------------------------------------------------------------
(* SpecStore: the switch of db_worker_run (db.c:757-780) alone, on a store  *)
(* that already holds rows.  The worker is handed an arbitrary sequence of  *)
(* commands, as if each had been put and got, and dispatches them.          *)

\* the coordinates <<p, q, x, y, z>> that hold a damage row at the start: two
\* in chunk (0, 0), one in chunk (1, 0)
DamageCoords == { <<0, 0, 1, 2, 3>>, <<0, 0, 1, 2, 4>>, <<1, 0, 1, 2, 3>> }

\* the damage value of a row at the start; NoRow stands for "no row"
NoRow == 0 - 1
DamageVals == { NoRow, 0, 4 }

\* the commands handed to the worker in SpecStore
StoreCmds ==
    { ring_entry_block(0, 0, 1, 2, 3, 5),
      ring_entry_block_damage(0, 0, 1, 2, 3, 4),
      ring_entry_block_damage_trim(0, 0),
      ring_entry_block_damage_trim(1, 0),
      ring_entry_light(0, 0, 1, 2, 3, 9),
      ring_entry_key(1, 0, 7) }

\* the store at the start: fixed block, light and key rows, any damage rows
StoreInit ==
    /\ \E f \in [DamageCoords -> DamageVals] :
         db = [block |-> { <<0, 0, 1, 2, 4, 7>>, <<1, 0, 1, 2, 3, 7>> },
               light |-> { <<1, 0, 1, 2, 3, 2>> },
               key |-> { <<0, 0, 3>> },
               damage |-> { <<c[1], c[2], c[3], c[4], c[5], f[c]>> :
                              c \in {d \in DamageCoords : f[d] # NoRow} },
               sign |-> {}]
    /\ disk = db
    /\ db_enabled = TRUE
    /\ ring = ring_alloc(InitialCapacity)
    /\ ringLive = "live"
    /\ mtx = [state |-> "init", owner |-> "none"]
    /\ cnd = "init"
    /\ load_mtx = "init"
    /\ thrd = "running"
    /\ pc = [t \in Threads |-> IF t = "worker" THEN "lock" ELSE "idle"]
    /\ cmd = [t \in Producers |-> NoEntry]
    /\ e = NoEntry
    /\ txn = "open"
    /\ dbOpen = TRUE
    /\ pushed = <<>>
    /\ popped = <<>>
    /\ applied = <<>>
    /\ ub = {}
    /\ crashed = FALSE
    /\ ret = "none"
    /\ rop = [op |-> "alloc", wrapped |-> FALSE, full |-> FALSE]
    /\ nops = 0
    /\ failed = {}
    /\ load_owner = "none"
    /\ rd = [t \in Producers |-> "none"]
    /\ loaded = NotLoaded

\* db.c:752-756 with a command c at hand: c was put, ring_get returned it and
\* the mutex was released
StorePop ==
    /\ pc["worker"] = "lock"
    /\ Len(applied) < MaxApply
    /\ \E c \in StoreCmds :
         /\ e' = c
         /\ pushed' = Append(pushed, c)
         /\ popped' = Append(popped, c)
    /\ pc' = [pc EXCEPT !["worker"] = "dispatch"]
    /\ UNCHANGED <<db_enabled, ring, ringLive, mtx, cnd, load_mtx, thrd, cmd, db, disk, txn,
                   dbOpen, applied, ub, crashed, ret, rop, nops, sideVars>>

StoreNext == StorePop \/ WorkerDispatch \/ WorkerDispatch2

SpecStore == StoreInit /\ [][StoreNext]_vars

----------------------------------------------------------------------------
(* SpecTrim: SpecStore, and between the commands of the worker a thread     *)
(* calls db_load_damage for a chunk.                                        *)

\* the chunks db_load_damage is called for
LoadChunks == { <<0, 0>>, <<1, 0>> }

\* db_load_damage(map, p, q) on an empty map, db.c:599-614, from its guard to
\* its return: load_mtx is taken, the rows are read and load_mtx is released
StoreLoadDamage ==
    /\ db_enabled
    /\ load_owner = "none"
    /\ \E c \in LoadChunks :
         loaded' = [done |-> TRUE, p |-> c[1], q |-> c[2], at |-> Len(applied),
                    map |-> load_block_damage(db, c[1], c[2])]
    /\ UNCHANGED <<db_enabled, ring, ringLive, mtx, cnd, load_mtx, thrd, pc, cmd, e, db,
                   disk, txn, dbOpen, pushed, popped, applied, ub, crashed, ret, rop, nops,
                   failed, load_owner, rd>>

TrimNext == StoreNext \/ StoreLoadDamage

SpecTrim == StoreInit /\ [][TrimNext]_vars

----------------------------------------------------------------------------
(* Claims about the pipeline (Spec, SpecSwitch, SpecAgain).                 *)

\* a is an initial segment of b
IsPrefix(a, b) == Len(a) <= Len(b) /\ a = SubSeq(b, 1, Len(a))

\* how often x occurs in seq
Count(x, seq) == Cardinality({i \in 1..Len(seq) : seq[i] = x})

\* the entries of seq
Range(seq) == {seq[i] : i \in 1..Len(seq)}

\* the place of the first EXIT in seq, 0 when there is none
FirstExit(seq) ==
    IF \E i \in 1..Len(seq) : seq[i].type = "EXIT"
    THEN CHOOSE i \in 1..Len(seq) :
             /\ seq[i].type = "EXIT"
             /\ \A j \in 1..(i - 1) : seq[j].type # "EXIT"
    ELSE 0

\* C1: global FIFO - whatever the interleaving of the producers, the worker
\* dispatches the commands in exactly the order in which their puts completed
\* under the queue mutex: what was dispatched is an initial segment of what
\* was popped, which is an initial segment of what was pushed.
C1_GlobalFifo ==
    /\ IsPrefix(applied, popped)
    /\ IsPrefix(popped, pushed)
    /\ Len(popped) - Len(applied) <= 1

\* C1 witness: the worker has dispatched a KEY and then a BLOCK command, two
\* commands of different entry points in the order of their puts
C1_Witness ==
    /\ Len(applied) >= 2
    /\ applied[1].type = "KEY"
    /\ applied[2].type = "BLOCK"
    /\ pushed[1].type = "KEY"

\* C2: exactly once - no command is dispatched more often than it was pushed,
\* and once the worker has left its loop every command pushed up to the EXIT
\* was dispatched as often as it was pushed.
C2_ExactlyOnce ==
    /\ \A c \in Range(applied) : Count(c, applied) <= Count(c, pushed)
    /\ pc["worker"] = "done" =>
         \A c \in Range(pushed) \cup Range(applied) :
             Count(c, applied) = Count(c, SubSeq(pushed, 1, FirstExit(pushed)))

\* C2 witness: the worker has left its loop after MaxPush producer commands,
\* one of them a COMMIT, and the EXIT
C2_Witness ==
    /\ pc["worker"] = "done"
    /\ Len(applied) = MaxPush + 1
    /\ \E i \in 1..MaxPush : applied[i].type = "COMMIT"
    /\ \E i \in 1..MaxPush : applied[i].type = "BLOCK"

\* C3: graceful shutdown - when the worker has left its loop, the commands
\* pushed before the EXIT of db_worker_stop have all been dispatched, in
\* order, and the EXIT was the last entry dispatched.
C3_GracefulShutdown ==
    pc["worker"] = "done" =>
        /\ FirstExit(pushed) > 0
        /\ applied = SubSeq(pushed, 1, FirstExit(pushed))
        /\ \A i \in 1..(Len(applied) - 1) : applied[i].type # "EXIT"

\* C3 witness: db_worker_stop pushed the EXIT after two other commands and has
\* joined the worker
C3_Witness ==
    /\ thrd = "joined"
    /\ Len(pushed) >= 3
    /\ FirstExit(pushed) = 3
    /\ Len(applied) = 3

\* what a stop does to a primitive, the ring or the thread that a stop before
\* it has already destroyed, freed or joined
StopMisuse ==
    { <<"stop", "lock_dead_mutex">>, <<"stop", "unlock_dead_mutex">>,
      <<"stop", "signal_dead_cnd">>, <<"stop", "ring_use_after_free">>,
      <<"stop", "join_twice">>, <<"stop", "cnd_destroy_twice">>,
      <<"stop", "mtx_destroy_twice">>, <<"stop", "load_mtx_destroy_twice">>,
      <<"stop", "ring_free_twice">> }

\* C4: shutdown is idempotent - a stop after a completed stop does not free
\* the ring again, does not lock or destroy the destroyed mutex or condition
\* variable and does not join the worker thread again.
C4_StopIdempotent == ub \cap StopMisuse = {}

\* the threads that call the entry points
Callers == Producers \cup {"main"}

\* the state a call that returns at its guard must leave alone
guardedVars ==
    <<ring, ringLive, mtx, cnd, load_mtx, thrd, pc, cmd, e, db, disk, txn, dbOpen,
      pushed, popped, applied, ub, crashed>>

\* C5 as stated: with persistence disabled no operation that begins does
\* anything - no call gets past its guard, the calls leave the ring, the
\* mutex and the store alone, and the worker loop at the top of an iteration
\* neither locks the queue mutex nor pops.
C5_DisabledAllNoOp ==
    [][~db_enabled =>
         /\ \A t \in Callers : pc[t] = "idle" => pc'[t] = "idle"
         /\ pc["worker"] = "lock" => (pc'["worker"] = "lock" /\ popped' = popped)]_vars

\* C5 as amended: with persistence disabled every entry point (the enqueue
\* calls, db_commit, the immediate calls, db_init, db_close with
\* db_worker_stop) returns at its guard - no caller leaves "idle", no sign row
\* is written, and a return at the guard changes nothing of the ring, the
\* primitives, the worker or the store.
C5_DisabledCallsNoOp ==
    [][/\ ~db_enabled =>
            /\ \A t \in Callers : pc[t] = "idle" => pc'[t] = "idle"
            /\ db'.sign = db.sign
       /\ (ret' # ret /\ ret' # "none") => (~db_enabled /\ UNCHANGED guardedVars)]_vars

\* C5 witness: db_close was called and returned at its guard while the worker
\* was running with an entry pending
C5_Witness ==
    /\ ~db_enabled
    /\ ret = "db_close"
    /\ thrd = "running"
    /\ ~ring_empty(ring)

\* a thread stands in a call to the store
InStoreCall(t) ==
    \/ t = "worker" /\ pc[t] \in {"dispatch", "dispatch2"} /\ e.type # "EXIT"
    \/ t = "main" /\ pc[t] = "close_commit"
    \/ t \in Producers /\ pc[t] = "idle"

\* C6: no thread is in a store call while it holds the queue mutex - a
\* producer and the stop hold it only from the put to the unlock, the worker
\* only from the pop to the unlock that precedes the switch.
C6_NoStoreCallUnderMutex ==
    /\ \A t \in Threads : InStoreCall(t) => mtx.owner # t
    /\ \A t \in Producers : mtx.owner = t => pc[t] = "unlock"
    /\ mtx.owner = "main" => pc["main"] = "stop_unlock"
    /\ mtx.owner = "worker" => pc["worker"] = "unlock"

\* C6 witness: the worker is in the store call of a BLOCK command while a
\* producer holds the queue mutex
C6_Witness ==
    /\ pc["worker"] = "dispatch"
    /\ e.type = "BLOCK"
    /\ mtx.owner \in Producers

\* what a producer does to the queue mutex, the condition variable or the
\* ring after db_worker_stop has destroyed or freed it
ProducerMisuse ==
    { <<"producer", "lock_dead_mutex">>, <<"producer", "unlock_dead_mutex">>,
      <<"producer", "signal_dead_cnd">>, <<"producer", "ring_use_after_free">> }

\* C16: the ring is freed once, after the worker has exited, and when
\* db_worker_stop destroys the mutex and the condition variable and frees the
\* ring no other thread holds the mutex then or touches the mutex, the
\* condition variable or the ring later.
C16_FreedOnceUnshared ==
    /\ ringLive = "freed" => thrd = "joined"
    /\ <<"stop", "ring_free_twice">> \notin ub
    /\ <<"stop", "mtx_destroy_locked">> \notin ub
    /\ ub \cap ProducerMisuse = {}

\* a use of the queue mutex, the condition variable or the ring while they
\* are not initialised or allocated
LifecycleMisuse ==
    { <<w, what>> : w \in {"stop", "producer"},
                    what \in {"lock_dead_mutex", "unlock_dead_mutex",
                              "signal_dead_cnd", "ring_use_after_free"} }

\* C23: lifecycle safety under the enable switch - whatever the order of
\* db_enable, db_disable, db_init, the enqueue calls and db_close, the queue
\* mutex, the condition variable and the ring are used only between
\* db_worker_start and db_worker_stop, and db_close does not return while a
\* worker that was started is unjoined.
C23_LifecycleSafe ==
    /\ ub \cap LifecycleMisuse = {}
    /\ ret = "db_close" => thrd \notin {"running", "exited"}

\* the step in which the worker processes a COMMIT
CommitStep == pc["worker"] = "dispatch" /\ e.type = "COMMIT" /\ pc'["worker"] # "dispatch"

\* the step in which db_close commits and closes the handle
CloseStep == dbOpen /\ ~dbOpen'

\* a step in which the worker writes to the store
WriteStep ==
    /\ pc["worker"] \in {"dispatch", "dispatch2"}
    /\ pc'["worker"] # pc["worker"]
    /\ e.type \in WriteKinds

\* C17: transaction boundaries - from db_init to db_close a transaction is
\* open at every moment; the committed store changes only when the worker
\* processes a COMMIT, which closes the transaction and opens the next, and
\* when db_close commits; every write of the worker happens inside the open
\* transaction and is committed by the next of these.
C17_TransactionBoundaries ==
    [][/\ dbOpen' => txn' = "open"
       /\ txn' # txn => CloseStep
       /\ disk' # disk => (CommitStep \/ CloseStep)
       /\ CommitStep => (disk' = db /\ txn = "open" /\ txn' = "open")
       /\ CloseStep => (disk' = db /\ txn = "open" /\ txn' = "none")
       /\ WriteStep => (txn = "open" /\ disk' = disk /\ dbOpen)]_vars

\* C17 witness: a KEY write was committed by a COMMIT and a later write sits
\* in the transaction the COMMIT opened
C17_Witness ==
    /\ Len(applied) >= 2
    /\ applied[1].type = "KEY"
    /\ applied[2].type = "COMMIT"
    /\ disk.key # {}
    /\ db # disk
    /\ dbOpen
    /\ txn = "open"

\* C18: the stop terminates and no wakeup is lost - the worker never sleeps
\* in cnd_wait while the ring holds an entry, and once db_worker_stop has put
\* the EXIT the worker gets to it, leaves its loop, and thrd_join returns.
C18_StopTerminates ==
    /\ [](pc["worker"] = "wait" => ring_empty(ring))
    /\ (pc["main"] = "stop_unlock") ~> (thrd = "joined")

\* C18 witness: db_worker_stop has put the EXIT behind MaxPush commands while
\* the worker slept in cnd_wait, and its signal has woken the worker
C18_Witness ==
    /\ pc["main"] = "stop_unlock"
    /\ pc["worker"] = "wake"
    /\ pushed[Len(pushed)].type = "EXIT"
    /\ Len(pushed) - Len(popped) >= 2

\* C19: STOPPED is terminal and is reached only through EXIT - the worker
\* leaves its loop in the step that dispatches a popped EXIT and in no other
\* step, the dispatch of an EXIT always leaves it, and a worker that has left
\* never takes the queue mutex, pops the ring or applies a command again.
C19_StoppedTerminal ==
    [][/\ (pc["worker"] # "done" /\ pc'["worker"] = "done")
            => /\ pc["worker"] = "dispatch"
               /\ e.type = "EXIT"
               /\ popped[Len(popped)] = e
       /\ (pc["worker"] = "dispatch" /\ pc'["worker"] # "dispatch")
            => (pc'["worker"] = "done" <=> e.type = "EXIT")
       /\ pc["worker"] = "done"
            => /\ pc'["worker"] = "done"
               /\ mtx'.owner # "worker"
               /\ popped' = popped
               /\ applied' = applied
               /\ e' = e]_vars

\* C19 witness: the worker has left its loop on the EXIT, with a command that
\* was put behind the EXIT still in the ring
C19_Witness ==
    /\ pc["worker"] = "done"
    /\ applied[Len(applied)].type = "EXIT"
    /\ Len(pushed) > Len(popped)
    /\ ringLive = "live"

\* C20: spurious wakeups are harmless - ring_get on an empty ring reports
\* empty and leaves the ring as it is; whenever the worker stands behind its
\* wait loop, the entry it holds is the one its last ring_get popped under the
\* mutex and that entry has not been dispatched before; and the commands
\* dispatched are never more than the commands popped, which are never more
\* than the commands pushed.
C20_SpuriousWakeupSafe ==
    /\ (ringLive = "live" /\ ring_empty(ring))
         => /\ ~ring_get(ring).ok
            /\ ring_get(ring).ring = ring
    /\ pc["worker"] = "unlock" => mtx.owner = "worker"
    /\ pc["worker"] \in {"unlock", "dispatch"}
         => /\ Len(popped) = Len(applied) + 1
            /\ e = popped[Len(popped)]
    /\ pc["worker"] \in {"lock", "wait", "wake", "dispatch2", "done"}
         => Len(popped) = Len(applied)
    /\ Len(applied) <= Len(popped)
    /\ Len(popped) <= Len(pushed)

\* C20 witness: cnd_wait has returned although nothing was put - the worker is
\* awake on an empty ring, after it dispatched every command pushed so far
C20_Witness ==
    /\ pc["worker"] = "wake"
    /\ ringLive = "live"
    /\ ring_empty(ring)
    /\ Len(pushed) >= 1
    /\ Len(applied) = Len(pushed)

----------------------------------------------------------------------------
(* Claims about the store (SpecStore).                                      *)

\* the damage rows of store s at the coordinate of entry b
DamageRowsAt(s, b) ==
    {r \in s.damage : <<r[1], r[2], r[3], r[4], r[5]>> = <<b.p, b.q, b.x, b.y, b.z>>}

\* the damage a reader finds in store s at the coordinate of entry b: the value
\* of its row, 0 when there is no row
DamageAt(s, b) ==
    IF DamageRowsAt(s, b) = {} THEN {0} ELSE {r[6] : r \in DamageRowsAt(s, b)}

\* the worker has gone through the whole case of applied[i]
Processed(i) == i < Len(applied) \/ pc["worker"] \notin {"dispatch2"}

\* C11: WriteBlock clears damage - once the worker has processed a BLOCK
\* command, and as long as it has dispatched no later BLOCK_DAMAGE command for
\* the same coordinate, the block row holds the value written and the damage
\* of the coordinate is 0, whatever it was before; unless a later trim of the
\* chunk removed it, the damage row itself is there with value 0.
C11_WriteBlockClearsDamage ==
    \A i \in 1..Len(applied) :
        LET b == applied[i]
            later == {applied[j] : j \in (i + 1)..Len(applied)}
        IN  ( /\ b.type = "BLOCK"
              /\ Processed(i)
              /\ ~\E c \in later : /\ c.type = "BLOCK_DAMAGE"
                                   /\ <<c.p, c.q, c.x, c.y, c.z>> = <<b.p, b.q, b.x, b.y, b.z>> )
            => /\ DamageAt(db, b) = {0}
               /\ <<b.p, b.q, b.x, b.y, b.z, b.w>> \in db.block
               /\ (~\E c \in later : c.type = "BLOCK_DAMAGE_TRIM" /\ c.p = b.p /\ c.q = b.q)
                    => DamageRowsAt(db, b) = {<<b.p, b.q, b.x, b.y, b.z, 0>>}

\* C11 witness: a damage of 4 was written at the coordinate, then the block
\* was written, and the damage row of the coordinate holds 0
C11_Witness ==
    /\ Len(applied) = 2
    /\ applied[1].type = "BLOCK_DAMAGE"
    /\ applied[2].type = "BLOCK"
    /\ pc["worker"] = "lock"
    /\ <<0, 0, 1, 2, 3, 0>> \in db.damage

\* C12: a trim of chunk (p, q) deletes exactly the damage rows of that chunk
\* whose value is 0 - no row is added, no zero row of the chunk is left, every
\* non-zero row of the chunk and every row of every other chunk survives, and
\* the block, light, key and sign rows are unchanged.
C12_TrimDeletesOnlyZeroRows ==
    [][(pc["worker"] = "dispatch" /\ e.type = "BLOCK_DAMAGE_TRIM" /\ pc'["worker"] # "dispatch")
         => /\ db'.damage \subseteq db.damage
            /\ \A r \in db.damage :
                 r \in db'.damage <=> ~(r[1] = e.p /\ r[2] = e.q /\ r[6] = 0)
            /\ db'.block = db.block
            /\ db'.light = db.light
            /\ db'.key = db.key
            /\ db'.sign = db.sign]_vars

\* C12 witness: after a block write and a trim of chunk (0, 0) the zero row
\* the block write left is gone, a non-zero row of the chunk and a zero row of
\* chunk (1, 0) are still there
C12_Witness ==
    /\ Len(applied) = 2
    /\ applied[1].type = "BLOCK"
    /\ applied[2] = ring_entry_block_damage_trim(0, 0)
    /\ pc["worker"] = "lock"
    /\ DamageRowsAt(db, applied[1]) = {}
    /\ <<0, 0, 1, 2, 4, 4>> \in db.damage
    /\ <<1, 0, 1, 2, 3, 0>> \in db.damage

\* the chunks that have damage rows in store s, and the chunks loaded
ChunksOf(s) == { <<r[1], r[2]>> : r \in s.damage } \cup LoadChunks

\* C24: trim is invisible to loads - db_load_damage hands no zero damage
\* value to the map, and the step in which the worker processes a
\* BLOCK_DAMAGE_TRIM, for whatever chunk, leaves what db_load_damage produces
\* for every chunk as it was.
C24_TrimInvisibleToLoads ==
    [][/\ loaded'.done => \A r \in loaded'.map : r[4] # 0
       /\ (pc["worker"] = "dispatch" /\ e.type = "BLOCK_DAMAGE_TRIM"
             /\ pc'["worker"] # "dispatch")
            => \A c \in ChunksOf(db) :
                 load_block_damage(db', c[1], c[2]) = load_block_damage(db, c[1], c[2])]_vars

\* C24 witness: the store started with a zero row and a non-zero row in chunk
\* (0, 0); the worker has trimmed the chunk, which deleted the zero row, and a
\* db_load_damage of the chunk after it produced what one before it would have
C24_Witness ==
    /\ loaded.done
    /\ loaded.at = 1
    /\ <<loaded.p, loaded.q>> = <<0, 0>>
    /\ applied = <<ring_entry_block_damage_trim(0, 0)>>
    /\ pc["worker"] = "lock"
    /\ <<0, 0, 1, 2, 3, 0>> \in disk.damage
    /\ <<0, 0, 1, 2, 3, 0>> \notin db.damage
    /\ loaded.map = {<<1, 2, 4, 4>>}
    /\ loaded.map = load_block_damage(disk, 0, 0)

----------------------------------------------------------------------------
(* Claims about the shutdown and the transactions (Spec).                   *)

\* the commands pushed before the EXIT of the stop
Written == SubSeq(pushed, 1, FirstExit(pushed) - 1)

\* entries for the same coordinate / the same chunk
SameCoord(a, b) == <<a.p, a.q, a.x, a.y, a.z>> = <<b.p, b.q, b.x, b.y, b.z>>
SameChunk(a, b) == <<a.p, a.q>> = <<b.p, b.q>>

\* Written[i] is the last command of one of the given kinds for its coordinate
LastForCoord(i, kinds) ==
    /\ Written[i].type \in kinds
    /\ \A j \in (i + 1)..Len(Written) :
         ~(Written[j].type \in kinds /\ SameCoord(Written[j], Written[i]))

\* store s holds, for every coordinate written, the last value written
HoldsLastValues(s) ==
    \A i \in 1..Len(Written) :
        LET c == Written[i]
        IN  /\ LastForCoord(i, {"BLOCK"}) =>
                 {r \in s.block : <<r[1], r[2], r[3], r[4], r[5]>> = <<c.p, c.q, c.x, c.y, c.z>>}
                   = {<<c.p, c.q, c.x, c.y, c.z, c.w>>}
            /\ LastForCoord(i, {"LIGHT"}) =>
                 {r \in s.light : <<r[1], r[2], r[3], r[4], r[5]>> = <<c.p, c.q, c.x, c.y, c.z>>}
                   = {<<c.p, c.q, c.x, c.y, c.z, c.w>>}
            /\ LastForCoord(i, {"BLOCK", "BLOCK_DAMAGE"}) =>
                 DamageAt(s, c) = {IF c.type = "BLOCK" THEN 0 ELSE c.w}
            /\ ( /\ c.type = "KEY"
                 /\ \A j \in (i + 1)..Len(Written) :
                      ~(Written[j].type = "KEY" /\ SameChunk(Written[j], c)) )
               => {r \in s.key : <<r[1], r[2]>> = <<c.p, c.q>>} = {<<c.p, c.q, c.key>>}

\* C13: durability at shutdown - when the worker processes a COMMIT, every
\* write applied before it is committed; and when db_close has completed, the
\* committed store holds for every coordinate written before the EXIT the
\* last value written, and nothing the handle saw is left uncommitted.
C13_DurableAtShutdown ==
    [][/\ (pc["worker"] = "dispatch" /\ e.type = "COMMIT" /\ pc'["worker"] # "dispatch")
            => disk' = db
       /\ (dbOpen /\ ~dbOpen')
            => /\ thrd' = "joined"
               /\ applied' = Append(Written', ring_entry_exit)
               /\ HoldsLastValues(disk')
               /\ disk' = db']_vars

\* C13 witness: WriteBlock(0,0,1,2,3,5), Commit, Exit; after the shutdown the
\* committed store holds block 5 and damage 0 at the coordinate
C13_Witness ==
    /\ ~dbOpen
    /\ pushed = <<ring_entry_block(0, 0, 1, 2, 3, 5), ring_entry_commit, ring_entry_exit>>
    /\ disk.block = {<<0, 0, 1, 2, 3, 5>>}
    /\ disk.damage = {<<0, 0, 1, 2, 3, 0>>}

\* the commands pushed behind the EXIT of the stop
AfterExit ==
    IF FirstExit(pushed) = 0 THEN <<>>
    ELSE SubSeq(pushed, FirstExit(pushed) + 1, Len(pushed))

\* store s after the worker's case for command c
Applied1(s, c) ==
    CASE c.type = "BLOCK" ->
             _db_insert_block_damage(_db_insert_block(s, c.p, c.q, c.x, c.y, c.z, c.w),
                                     c.p, c.q, c.x, c.y, c.z, 0)
      [] c.type = "LIGHT" -> _db_insert_light(s, c.p, c.q, c.x, c.y, c.z, c.w)
      [] c.type = "KEY" -> _db_set_key(s, c.p, c.q, c.key)
      [] c.type = "BLOCK_DAMAGE" -> _db_insert_block_damage(s, c.p, c.q, c.x, c.y, c.z, c.w)
      [] c.type = "BLOCK_DAMAGE_TRIM" -> _db_block_damage_trim(s, c.p, c.q)
      [] OTHER -> s

\* store s after the worker's cases for the commands of seq, in order
RECURSIVE Replay(_, _)
Replay(s, seq) ==
    IF seq = <<>> THEN s ELSE Replay(Applied1(s, Head(seq)), Tail(seq))

\* C22: a command pushed behind the EXIT is never applied - the worker pops
\* and dispatches nothing behind the first EXIT; the commands pushed behind
\* it stay pending in the ring until the ring is freed; and when the worker
\* has left its loop the tables the worker writes hold what the commands
\* pushed before the EXIT make of an empty store, and nothing else.
C22_AfterExitNeverApplied ==
    FirstExit(pushed) > 0 =>
        /\ Len(popped) <= FirstExit(pushed)
        /\ Len(applied) <= FirstExit(pushed)
        /\ \A i \in 1..Len(popped) : popped[i] = pushed[i]
        /\ (ringLive = "live" /\ Len(popped) = FirstExit(pushed))
             => Pending(ring) = AfterExit
        /\ pc["worker"] = "done" =>
             /\ popped = SubSeq(pushed, 1, FirstExit(pushed))
             /\ applied = popped
             /\ [db EXCEPT !.sign = {}] = Replay(EmptyStore, Written)

\* C22 witness: a producer has put a block behind the EXIT, the worker has
\* left its loop, db_worker_stop has freed the ring with the block in it, and
\* the store holds no block
C22_Witness ==
    /\ ringLive = "freed"
    /\ pc["worker"] = "done"
    /\ FirstExit(pushed) > 0
    /\ \E i \in (FirstExit(pushed) + 1)..Len(pushed) : pushed[i].type = "BLOCK"
    /\ db.block = {}
    /\ ~crashed

----------------------------------------------------------------------------
(* Claims about failing store writes (SpecFail).                            *)

\* C14: a failed store write is absorbed - the step in which a write fails
\* leaves the worker in its loop (on to the next write of the case or to the
\* next pop), with the thread running, and changes nothing of the ring, of
\* the producers, of the stop or of the store; the command is dispatched once
\* and never again, and the commands behind it are still popped and
\* dispatched in push order, up to the EXIT.
C14_FailedWriteAbsorbed ==
    [][/\ failed' # failed =>
            /\ pc'["worker"] \in {"lock", "dispatch2"}
            /\ thrd' = thrd /\ thrd = "running"
            /\ \A t \in Callers : pc'[t] = pc[t]
            /\ UNCHANGED <<ring, ringLive, mtx, cnd, cmd, db, disk, txn, dbOpen,
                           pushed, popped, crashed, ub, ret>>
            /\ Len(applied') <= Len(applied) + 1
       /\ C1_GlobalFifo'
       /\ C2_ExactlyOnce'
       /\ C3_GracefulShutdown']_vars

\* C14 witness: the write of the first command failed, the commands behind it
\* were dispatched and the worker left its loop at the EXIT
C14_Witness ==
    /\ 1 \in failed
    /\ pc["worker"] = "done"
    /\ Len(applied) = MaxPush + 1
    /\ applied[2].type \in WriteKinds
    /\ 2 \notin failed

----------------------------------------------------------------------------
(* Claims about the direct reads (SpecLoad).                                *)

\* C15: the reads are serialized - no two threads are at the same time inside
\* the reset/bind/step sequence of a direct read (db_load_blocks,
\* db_load_lights, db_load_damage, db_load_signs, db_get_key).
C15_ReadsSerialized ==
    \A a, b \in Producers : (pc[a] = "rd_step" /\ pc[b] = "rd_step") => a = b

----------------------------------------------------------------------------
(* Claims about the ring (SpecRing).                                        *)

\* the entries put and not yet returned, oldest first
NotYetPopped == SubSeq(pushed, Len(popped) + 1, Len(pushed))

\* C7: queue FIFO - for every interleaving of ring_put and ring_get calls the
\* entries successful ring_get calls returned are the entries put, in put
\* order (the first Len(popped) of them), whatever growth happened in between.
C7_QueueFifo ==
    /\ Len(popped) <= Len(pushed)
    /\ popped = SubSeq(pushed, 1, Len(popped))

\* C7 witness: two different entries were returned after the ring had grown
\* beyond every capacity it is allocated with
C7_Witness ==
    /\ Len(popped) >= 2
    /\ popped[1] # popped[2]
    /\ ring.capacity > InitialCapacity + 1

\* C8: growth preserves contents - a ring_grow step leaves the size unchanged
\* and a full drain after it yields the sequence a full drain before it would
\* have yielded, also when the pending entries wrap around the storage.
C8_GrowPreservesContents ==
    [][rop'.op = "grow" =>
         /\ ring'.capacity = 2 * ring.capacity
         /\ ring_size(ring') = ring_size(ring)
         /\ Drain(ring') = Drain(ring)]_vars

\* C8 witness: ring_grow acted on a ring whose pending entries wrapped around
C8_Witness ==
    /\ rop.op = "grow"
    /\ rop.wrapped
    /\ ring_size(ring) >= 2

\* C9: the queue is logically unbounded - every ring_put, also one that meets
\* a full ring, leaves the size one larger, keeps the entries that were
\* pending in their order and makes the entry put the newest pending one.
C9_PutNeverRejects ==
    [][rop'.op = "put" =>
         /\ ring_size(ring') = ring_size(ring) + 1
         /\ Drain(ring') = Append(Drain(ring), pushed'[Len(pushed')])]_vars

\* C9 witness: a ring_put met a full ring
C9_Witness ==
    /\ rop.op = "put"
    /\ rop.full
    /\ ring_size(ring) >= 2

\* C10: queue index invariant - start and end are below capacity, the size
\* (end - start) mod capacity is the number of entries put and not yet
\* returned and lies in 0..capacity, and ring_empty / ring_full say size = 0 /
\* size = capacity - 1.
C10_IndexInvariant ==
    /\ ring.start \in 0..(ring.capacity - 1)
    /\ ring.end \in 0..(ring.capacity - 1)
    /\ ring_size(ring) = Len(pushed) - Len(popped)
    /\ ring_size(ring) >= 0
    /\ ring_size(ring) <= ring.capacity
    /\ ring_empty(ring) <=> (Len(pushed) - Len(popped) = 0)
    /\ ring_full(ring) <=> (Len(pushed) - Len(popped) = ring.capacity - 1)
    /\ Pending(ring) = NotYetPopped

\* C10 witness: a grown ring whose pending entries wrap around and which is full
C10_Witness ==
    /\ Wrapped(ring)
    /\ ring_full(ring)
    /\ ring.capacity > InitialCapacity + 1
    /\ Len(popped) >= 1

----------------------------------------------------------------------------
(* Claims about the growth of the worker's ring (SpecGrow).                 *)

\* C21: growth mechanics - the ring is allocated once, by db_worker_start,
\* empty and with capacity 1024; a put that meets a full ring doubles the
\* capacity, moves the pending entries to slots 0 .. size-1 in their order
\* (start = 0, end = old size) and then appends; the capacity never goes
\* down and changes only by doubling in a put that meets a full ring.
C21_GrowthMechanics ==
    [][/\ ringLive = "none" =>
            /\ ringLive' = "live"
            /\ ring'.capacity = 1024
            /\ ring'.start = 0
            /\ ring'.end = 0
       /\ ringLive = "live" =>
            /\ ringLive' = "live"
            /\ rop'.op \in {"put", "get", "get_empty"}
            /\ ring'.capacity >= ring.capacity
            /\ ring'.capacity # ring.capacity
                 => /\ rop'.op = "put"
                    /\ ring_full(ring)
                    /\ ring'.capacity = 2 * ring.capacity
            /\ (rop'.op = "put" /\ ring_full(ring))
                 => /\ ring'.capacity = 2 * ring.capacity
                    /\ ring'.start = 0
                    /\ ring'.end = ring_size(ring) + 1
                    /\ \A i \in 1..ring_size(ring) : ring'.data[i] = Pending(ring)[i]
                    /\ ring'.data[ring_size(ring) + 1] = pushed'[Len(pushed')]
            /\ (rop'.op = "put" /\ ~ring_full(ring))
                 => /\ ring'.capacity = ring.capacity
                    /\ ring'.start = ring.start]_vars

\* C21 witness: the ring allocated with 1024 slots was full with its pending
\* entries wrapped around the storage, and the put has grown it to 2048
C21_Witness ==
    /\ rop.op = "put"
    /\ rop.full
    /\ rop.wrapped
    /\ ring.capacity = 2048
    /\ ring.start = 0
    /\ ring.end = 1024
    /\ Len(popped) >= 2

====
